---- MODULE Spec2Model ----
(***************************************************************************)
(* Ralph Manager (AI_Guidance/Tools/ralph_manager.py): the task lifecycle  *)
(* supervisor.  Every CLI invocation is a short-lived process that loads   *)
(* the state file, acts and saves it again; the supervised commands run    *)
(* detached, each as the leader of its own process group.                  *)
(*                                                                         *)
(* An invocation is modelled by a slot with a program counter; one step of *)
(* an invocation is one access to a shared resource (the state file, the   *)
(* log directory, the process table).  Between two steps the supervised    *)
(* processes may exit and the clock may advance.                           *)
(***************************************************************************)
EXTENDS Integers, Sequences, FiniteSets, TLC

\* ------------------------------------------------------------------ bounds
\* No run_task begins once this many tasks have been launched.
MaxTasks == 2
\* Number of clock ticks (days) that may pass.
MaxTicks == 2
\* Number of invocations, where they are counted.
MaxOps == 3
\* Number of characters in a log file, where its text is read.
MaxLen == 4
\* Largest --tail argument.
MaxTail == 3

\* --------------------------------------------------------------- constants
\* list_tasks: "cutoff = datetime.now().timestamp() - 86400"
DaySeconds == 86400
\* One tick of the model's clock, in seconds: a task that started a tick ago
\* is exactly as old as the cutoff of list_tasks.
TickSeconds == DaySeconds
\* main: "--tail", default=50
DefaultTail == 50
\* DEFAULT_TIMEOUT = ralph_config.get('default_timeout', 300): the timeout
\* run_task stores when --timeout is not given.
DefaultTimeout == 300

\* Invocation slots. The sequential specification uses slot 1 only.
Slots == {1, 2}
\* Task ids an invocation may be given (ralph_0001, ralph_0002, ...).
IdArgs == 1..MaxTasks
\* What a launched command does with SIGTERM: its leader ignores it, or its
\* leader exits on it and has a child that ignores it.  The child may exit by
\* itself at any time, and what is left then is a command with no child that
\* exits on SIGTERM.
Commands == {"stubborn", "orphaner"}
\* What os.waitpid(pid, WNOHANG) may give: the wait status 256 (exit 1), the
\* wait status 15 (ended by SIGTERM), or -1 for ChildProcessError.
WaitOutcomes == {-1, 256, 15}

\* Python's None and a present value.
None == <<>>
Some(v) == <<v>>

VARIABLES
    file,     \* STATE_FILE: [kind, doc]
    logs,     \* ids n for which /tmp/ralph/ralph_<n>.log exists
    procs,    \* process table: pid -> [leader, child, cmd]
    now,      \* wall clock, seconds
    inv,      \* invocation slots
    created,  \* ids returned by run_task so far, in order
    ops,      \* invocations begun, where they are counted
    io        \* get_task_output: [text of the log file, --tail argument]

vars == <<file, logs, procs, now, inv, created, ops, io>>

\* ------------------------------------------------------------- state store
\* A task id f"ralph_{n:04d}" is the decimal text of n, zero-padded to four
\* digits or more; the text determines n and n the text, and the log file of
\* the task is /tmp/ralph/<id>.log.  Ids and log files are kept by their n.

EmptyTasks == [t \in {} |-> None]
FreshDoc == [shape |-> "doc", tasks |-> EmptyTasks, next_id |-> 1]
\* A parseable file that is no document: {} or [] (neither key present).
MalformedDoc == [shape |-> "malformed", tasks |-> EmptyTasks, next_id |-> 0]

load_state(f) ==
    IF f.kind = "absent" THEN FreshDoc
    ELSE IF f.kind = "unparsable" THEN FreshDoc
    ELSE f.doc

\* (mutant) the save keeps the records the file holds that the document lacks.
save_state_merged(state) ==
    [kind |-> "json",
     doc |-> [state EXCEPT !.tasks = state.tasks @@ load_state(file).tasks]]

\* json.dump(state, f) into the file opened with 'w': the whole document
\* replaces what the file held.
save_state(state) == [kind |-> "json", doc |-> state]

\* state['tasks'] / state['next_id'] raise on a value that has no such key.
Subscriptable(state) == state.shape = "doc"

\* (mutant) a missing id yields an empty record in place of None.
TasksGetDefault(state, tid) ==
    IF tid \in DOMAIN state.tasks THEN <<state.tasks[tid]>> ELSE <<[id |-> 0, pid |-> 0,
        status |-> "none", started_at |-> 0, timeout |-> 0, completed_at |-> <<>>,
        exit_code |-> <<>>]>>

\* state['tasks'].get(task_id)
TasksGet(state, tid) ==
    IF tid \in DOMAIN state.tasks THEN Some(state.tasks[tid]) ELSE None

\* The state file after the first run_task.
StoreOfOne ==
    [kind |-> "json",
     doc |-> [shape |-> "doc",
              tasks |-> 1 :> [id |-> 1, pid |-> 1, status |-> "running", started_at |-> 0,
                              timeout |-> DefaultTimeout,
                              completed_at |-> None, exit_code |-> None],
              next_id |-> 2]]

\* ------------------------------------------------------------- processes
\* An entry of the process table, by the pid Popen returned: the task id the
\* process was launched for, the launched leader, its child, and the process the pid names once the kernel has
\* given it out again ("none", or the owner of that process: "own" for the
\* user who runs the tool, "other" for somebody else).
NewProc(cmd, tid) ==
    [task    |-> tid,
     leader  |-> TRUE,
     child   |-> cmd = "orphaner",
     cmd     |-> cmd,
     foreign |-> "none"]

\* (mutant) the record gets the pid of the process launched before.
PreviousPid == Cardinality(DOMAIN procs)

NewPid == Cardinality(DOMAIN procs) + 1

\* Whether a process has that pid: the launched leader, or the process that
\* got the pid after it.  os.getpgid(pid) succeeds iff one has.
ProcessExists(pid) ==
    pid \in DOMAIN procs /\ (procs[pid].leader \/ procs[pid].foreign # "none")

\* Signalling the process of another user raises PermissionError, which is
\* an OSError.
MaySignal(pid) == procs[pid].foreign # "other"

\* The launched process leads its own session and group: its pgid is its pid.
getpgid(pid) == pid

LeaderIgnoresTerm(p) == p.cmd = "stubborn"
ChildIgnoresTerm(p) == p.cmd = "orphaner"

\* The group a signal reaches is the group of the process that has the pid:
\* the launched leader and its child, or the process that got the pid later,
\* which ends on either signal.
Signalled(p, sig) ==
    IF p.foreign # "none" THEN [p EXCEPT !.foreign = "none"]
    ELSE IF sig = "SIGKILL"
    THEN [p EXCEPT !.leader = FALSE, !.child = FALSE]
    ELSE [p EXCEPT !.leader = p.leader /\ LeaderIgnoresTerm(p),
                   !.child  = p.child /\ ChildIgnoresTerm(p)]

\* os.killpg(pgid, sig): every member of the group gets the signal.
killpg(pgid, sig) == [procs EXCEPT ![pgid] = Signalled(procs[pgid], sig)]

GroupAlive(pid) == pid \in DOMAIN procs /\ (procs[pid].leader \/ procs[pid].child)

\* ------------------------------------------------------------ invocations
NoTask == [id |-> 0, pid |-> 0, status |-> "none", started_at |-> 0, timeout |-> 0,
           completed_at |-> None, exit_code |-> None]
NoRet == [kind |-> "none", task |-> NoTask, n |-> 0, list |-> <<>>, text |-> <<>>]

IdleInv ==
    [op |-> "none", pc |-> "idle", arg |-> 0, flag |-> FALSE,
     state |-> FreshDoc, task |-> NoTask, sent |-> <<>>, wrote |-> FALSE,
     found |-> FALSE, seen |-> FALSE, wait |-> None, todo |-> <<>>, probed |-> {}, count |-> 0, ret |-> NoRet,
     pre |-> [file |-> [kind |-> "absent", doc |-> FreshDoc], logs |-> {}, now |-> 0,
              launched |-> 0],
     prev |-> NoRet]

Active(i) == inv[i].pc \notin {"idle", "done", "crashed"}

Init ==
    /\ file = [kind |-> "absent", doc |-> FreshDoc]
    /\ logs = {}
    /\ procs = <<>>
    /\ now = 0
    /\ inv = [i \in Slots |-> IdleInv]
    /\ created = <<>>
    /\ ops = 0
    /\ io = [text |-> <<>>, tail |-> DefaultTail]

\* One invocation starts: the CLI parses its arguments and calls one function.
\* pre remembers the store, the logs, the date and the number of launched
\* processes it found; prev what the invocation
\* right before it returned, when both are check_task of the same id.
StartInv(i, op, arg, flag, pc) ==
    inv' = [inv EXCEPT ![i] =
              [IdleInv EXCEPT !.op = op, !.pc = pc, !.arg = arg, !.flag = flag,
                              !.pre = [file |-> file, logs |-> logs, now |-> now,
                                       launched |-> Len(procs)],
                              !.prev = IF op = "check" /\ inv[i].op = "check"
                                          /\ inv[i].pc = "done" /\ inv[i].arg = arg
                                       THEN inv[i].ret ELSE NoRet]]

Begin(i) ==
    /\ ~Active(i)
    /\ \/ /\ Len(procs) < MaxTasks
          /\ StartInv(i, "run", 0, FALSE, "r_load")
       \/ \E tid \in IdArgs : StartInv(i, "check", tid, FALSE, "c_load")
       \/ \E tid \in IdArgs : StartInv(i, "kill", tid, FALSE, "k_load")
       \/ \E tid \in IdArgs : StartInv(i, "tail", tid, FALSE, "t_read")
       \/ \E show_all \in BOOLEAN : StartInv(i, "list", 0, show_all, "l_load")
       \/ \E keep_running \in BOOLEAN : StartInv(i, "clean", 0, keep_running, "cl_load")
    /\ UNCHANGED <<file, logs, procs, now, created, io>>

Start(i) == Begin(i) /\ UNCHANGED ops

\* The same, counted.
StartCounted(i) ==
    /\ ops < MaxOps
    /\ ops' = ops + 1
    /\ Begin(i)

\* An uncaught exception ends the invocation.
Raise(r) == [r EXCEPT !.pc = "crashed", !.state = FreshDoc, !.task = NoTask]

\* ---------------------------------------------------------------- run_task
\* generate_task_id: the id is made from next_id, which is then incremented.
\* (mutant) the counter is not advanced.
generate_task_id_stale(state) == state

generate_task_id(state) == [state EXCEPT !.next_id = state.next_id + 1]
generated_id(state) == state.next_id

\* lines 74-75: state = load_state(); task_id = generate_task_id(state)
RunLoad(i) ==
    LET r == inv[i]
        state == load_state(file)
    IN /\ r.pc = "r_load"
       /\ inv' = [inv EXCEPT ![i] =
                   IF ~Subscriptable(state) THEN Raise(r)
                   ELSE [r EXCEPT !.pc = "r_open",
                                  !.state = generate_task_id(state),
                                  !.task = [NoTask EXCEPT !.id = generated_id(state)]]]
       /\ UNCHANGED <<file, logs, procs, now, created, ops, io>>

\* lines 78-83: the log directory is made and the log file opened for writing.
RunOpen(i) ==
    LET r == inv[i]
    IN /\ r.pc = "r_open"
       /\ logs' = logs \cup {r.task.id}
       /\ inv' = [inv EXCEPT ![i].pc = "r_popen"]
       /\ UNCHANGED <<file, procs, now, created, ops, io>>

\* lines 84-91: subprocess.Popen(..., start_new_session=True)
RunPopen(i) ==
    LET r == inv[i]
    IN /\ r.pc = "r_popen"
       /\ \E cmd \in Commands : procs' = Append(procs, NewProc(cmd, r.task.id))
       /\ inv' = [inv EXCEPT ![i].pc = "r_save", ![i].task.pid = NewPid]
       /\ UNCHANGED <<file, logs, now, created, ops, io>>

\* lines 93-109: the record is built, put into the document and saved.
RunSave(i) ==
    LET r == inv[i]
        task == [r.task EXCEPT !.status = "running", !.started_at = now,
                               !.timeout = DefaultTimeout,
                               !.exit_code = None, !.completed_at = None]
        state == [r.state EXCEPT !.tasks = (task.id :> task) @@ r.state.tasks]
    IN /\ r.pc = "r_save"
       /\ file' = save_state(state)
       /\ created' = Append(created, task.id)
       /\ inv' = [inv EXCEPT ![i] =
                   [r EXCEPT !.pc = "done", !.state = FreshDoc, !.task = NoTask,
                             !.wrote = TRUE,
                             !.ret = [NoRet EXCEPT !.kind = "task", !.task = task]]]
       /\ UNCHANGED <<logs, procs, now, ops, io>>

\* -------------------------------------------------------------- check_task
\* check_task returns; inside list_tasks the loop goes on with the next task.
Return(r, ret) ==
    IF r.op = "list" THEN [r EXCEPT !.pc = "l_loop", !.state = FreshDoc, !.task = NoTask]
    ELSE [r EXCEPT !.pc = "done", !.ret = ret, !.state = FreshDoc, !.task = NoTask,
                   !.count = 0]

RetTask(task) == [NoRet EXCEPT !.kind = "task", !.task = task]
RetNotFound == [NoRet EXCEPT !.kind = "not_found"]
RetBool(b) == [NoRet EXCEPT !.kind = IF b THEN "true" ELSE "false"]

\* (mutant) a terminal task is probed or signalled again.
is_running_any(task) == TRUE

\* lines 120 and 171: task['status'] == 'running'
is_running(task) == task.status = "running"

\* os.WIFEXITED / os.WEXITSTATUS of a wait status.
WIFEXITED(status) == status % 128 = 0
WEXITSTATUS(status) == (status \div 256) % 256

\* lines 130-134: the exit code the reap attempt gives; -1 stands for the
\* ChildProcessError of a process that is no child of this invocation.
reaped_exit_code(outcome) ==
    IF outcome = -1 THEN 0
    ELSE IF WIFEXITED(outcome) THEN WEXITSTATUS(outcome)
    ELSE -1

\* lines 114-120: load, look the task up, return it when it is not running.
CheckLoad(i) ==
    LET r == inv[i]
        state == load_state(file)
        task == TasksGet(state, r.arg)
    IN /\ r.pc = "c_load"
       /\ inv' = [inv EXCEPT ![i] =
                   IF ~Subscriptable(state) THEN Raise(r)
                   ELSE IF task = None THEN Return([r EXCEPT !.state = state], RetNotFound)
                   ELSE IF ~is_running(task[1])
                        THEN Return([r EXCEPT !.state = state, !.task = task[1]],
                                    RetTask(task[1]))
                   ELSE [r EXCEPT !.pc = "c_probe", !.state = state, !.task = task[1]]]
       /\ UNCHANGED <<file, logs, procs, now, created, ops, io>>

\* (mutant) a task past its timeout counts as gone.
probe_raises_after_timeout(pid) ==
    \/ ~ProcessExists(pid)
    \/ \E t \in DOMAIN load_state(file).tasks :
          /\ load_state(file).tasks[t].pid = pid
          /\ now > load_state(file).tasks[t].started_at + load_state(file).tasks[t].timeout

\* line 123: os.kill(pid, 0) raises OSError when no process has the pid
\* (ProcessLookupError) and when the process is another user's
\* (PermissionError).
probe_raises(pid) == ~ProcessExists(pid) \/ ~MaySignal(pid)

\* lines 122-124, 138: the probe; a task whose process exists is returned as is.
CheckProbe(i) ==
    LET r == inv[i]
        alive == r.task.pid \in DOMAIN procs /\ procs[r.task.pid].leader
    IN /\ r.pc = "c_probe"
       /\ inv' = [inv EXCEPT ![i] =
                   LET q == [r EXCEPT !.seen = alive,
                                      !.probed = IF alive THEN r.probed \cup {r.task.id}
                                                 ELSE r.probed]
                   IN IF probe_raises(r.task.pid)
                      THEN [q EXCEPT !.pc = "c_reap"]
                      ELSE Return(q, RetTask(r.task))]
       /\ UNCHANGED <<file, logs, procs, now, created, ops, io>>

\* (mutant) the exit code is left as it was.
completed_task_no_exit_code(task, outcome, at) ==
    [task EXCEPT !.status = "completed", !.completed_at = Some(at)]

\* lines 126-134: what check_task makes of a running task whose process is gone.
completed_task(task, outcome, at) ==
    [task EXCEPT !.status = "completed", !.completed_at = Some(at),
                 !.exit_code = Some(reaped_exit_code(outcome))]

\* lines 126-138: the record is completed, the document saved, the record returned.
CheckReap(i) ==
    LET r == inv[i]
    IN /\ r.pc = "c_reap"
       /\ \E outcome \in WaitOutcomes :
            LET task == completed_task(r.task, outcome, now)
                state == [r.state EXCEPT !.tasks[task.id] = task]
            IN /\ file' = save_state(state)
               /\ inv' = [inv EXCEPT ![i] =
                           Return([r EXCEPT !.state = state, !.task = task,
                                            !.wrote = TRUE, !.wait = Some(outcome)],
                                  RetTask(task))]
       /\ UNCHANGED <<logs, procs, now, created, ops, io>>

\* --------------------------------------------------------------- kill_task
\* lines 165-172: load, look the task up, refuse a task that is not running.
KillLoad(i) ==
    LET r == inv[i]
        state == load_state(file)
        task == TasksGet(state, r.arg)
    IN /\ r.pc = "k_load"
       /\ inv' = [inv EXCEPT ![i] =
                   IF ~Subscriptable(state) THEN Raise(r)
                   ELSE IF task = None THEN Return([r EXCEPT !.state = state], RetBool(FALSE))
                   ELSE IF ~is_running(task[1])
                        THEN Return([r EXCEPT !.state = state, !.task = task[1]],
                                    RetBool(FALSE))
                   ELSE [r EXCEPT !.pc = "k_term", !.state = state, !.task = task[1]]]
       /\ UNCHANGED <<file, logs, procs, now, created, ops, io>>

\* (mutant) a process that is gone counts as killed.
except_OSError_killed(r) == [r EXCEPT !.pc = "k_save"]

\* lines 191-192: an OSError inside the try block makes kill_task return False.
except_OSError(r) == Return(r, RetBool(FALSE))

\* line 176: os.killpg(os.getpgid(pid), SIGTERM); os.getpgid raises OSError
\* for a pid that names no process, os.killpg for the group of another user.
KillTerm(i) ==
    LET r == inv[i]
        pid == r.task.pid
        alive == pid \in DOMAIN procs /\ procs[pid].leader
    IN /\ r.pc = "k_term"
       /\ IF ~ProcessExists(pid) \/ ~MaySignal(pid)
          THEN /\ inv' = [inv EXCEPT ![i] = except_OSError([r EXCEPT !.found = alive])]
               /\ UNCHANGED procs
          ELSE /\ procs' = killpg(getpgid(pid), "SIGTERM")
               /\ inv' = [inv EXCEPT ![i].pc = "k_probe", ![i].found = alive,
                                      ![i].sent = Append(r.sent, "SIGTERM")]
       /\ UNCHANGED <<file, logs, now, created, ops, io>>

\* (mutant) the escalation never happens.
still_running_never(pid) == FALSE

\* line 181: whether the forceful signal is due after the sleep.
still_running(pid) == ProcessExists(pid) /\ MaySignal(pid)

\* lines 177-184: after time.sleep(0.5), os.kill(pid, 0) probes the process
\* and the group gets SIGKILL when the probe succeeds.  A process that goes
\* between the probe and the lookup of its group makes getpgid raise, which
\* line 183 swallows: that run ends as the one whose probe failed.
KillProbe(i) ==
    LET r == inv[i]
        pid == r.task.pid
        alive == pid \in DOMAIN procs /\ procs[pid].leader
    IN /\ r.pc = "k_probe"
       /\ IF still_running(pid)
          THEN /\ procs' = killpg(getpgid(pid), "SIGKILL")
               /\ inv' = [inv EXCEPT ![i].pc = "k_save", ![i].seen = alive,
                                      ![i].sent = Append(r.sent, "SIGKILL")]
          ELSE /\ inv' = [inv EXCEPT ![i].pc = "k_save", ![i].seen = alive]
               /\ UNCHANGED procs
       /\ UNCHANGED <<file, logs, now, created, ops, io>>

\* (mutant) the kill is not dated.
killed_task_undated(task, at) == [task EXCEPT !.status = "killed"]

\* lines 186-187: the record kill_task stores.
killed_task(task, at) ==
    [task EXCEPT !.status = "killed", !.completed_at = Some(at)]

\* lines 186-189
KillSave(i) ==
    LET r == inv[i]
        task == killed_task(r.task, now)
        state == [r.state EXCEPT !.tasks[task.id] = task]
    IN /\ r.pc = "k_save"
       /\ file' = save_state(state)
       /\ inv' = [inv EXCEPT ![i] =
                   Return([r EXCEPT !.state = state, !.task = task, !.wrote = TRUE],
                          RetBool(TRUE))]
       /\ UNCHANGED <<logs, procs, now, created, ops, io>>

\* --------------------------------------------------------- get_task_output
\* A text is a sequence of characters; "\n" ends a line.
Chars == {"x", "\n"}
Texts == UNION {[1..k -> Chars] : k \in 0..MaxLen}
Tails == -1..MaxTail

\* f.readlines(): the lines of the text, each with its "\n"; the last line
\* may have none.
RECURSIVE readlines(_)
readlines(text) ==
    IF text = <<>> THEN <<>>
    ELSE LET ends == {k \in 1..Len(text) : text[k] = "\n"}
             k == IF ends = {} THEN Len(text)
                  ELSE CHOOSE e \in ends : \A d \in ends : e <= d
         IN <<SubSeq(text, 1, k)>> \o readlines(SubSeq(text, k + 1, Len(text)))

\* ''.join(lines)
RECURSIVE join(_)
join(lines) == IF lines = <<>> THEN <<>> ELSE Head(lines) \o join(Tail(lines))

\* (mutant) the slice counts from the first line.
slice_to(lines, start) ==
    SubSeq(lines, 1, IF -start > Len(lines) THEN Len(lines) ELSE -start)

\* lines[start:]: a negative start counts from the end, and a start before
\* the first line is the first line.
slice_from(lines, start) ==
    LET n == Len(lines)
        from == IF start < 0 THEN (IF start + n < 0 THEN 0 ELSE start + n)
                ELSE (IF start > n THEN n ELSE start)
    IN SubSeq(lines, from + 1, n)

\* lines 155-158
read_output(text, tail) ==
    LET lines == readlines(text)
    IN join(IF tail > 0 THEN slice_from(lines, -tail) ELSE lines)

\* lines 143-160: the message for an unknown task or a missing log file, else
\* the text of the log.
TailRead(i) ==
    LET r == inv[i]
        state == load_state(file)
        task == TasksGet(state, r.arg)
    IN /\ r.pc = "t_read"
       /\ inv' = [inv EXCEPT ![i] =
                   IF ~Subscriptable(state) THEN Raise(r)
                   ELSE IF task = None
                        THEN Return([r EXCEPT !.state = state],
                                    [NoRet EXCEPT !.kind = "Task not found"])
                   ELSE IF task[1].id \notin logs
                        THEN Return([r EXCEPT !.state = state, !.task = task[1]],
                                    [NoRet EXCEPT !.kind = "No output file found"])
                   ELSE Return([r EXCEPT !.state = state, !.task = task[1]],
                               [NoRet EXCEPT !.kind = "output",
                                             !.text = read_output(io.text, io.tail)])]
       /\ UNCHANGED <<file, logs, procs, now, created, ops, io>>

\* main, lines 314-316: one get_task_output invocation starts.
TailStart(i) ==
    /\ ~Active(i)
    /\ \E tid \in IdArgs : StartInv(i, "tail", tid, FALSE, "t_read")
    /\ UNCHANGED <<file, logs, procs, now, created, ops, io>>

\* ------------------------------------------------------------- clean_tasks
\* lines 226-232: the tasks clean_tasks keeps.
retained(tasks, keep_running) ==
    IF keep_running
    THEN [t \in {u \in DOMAIN tasks : tasks[u].status = "running"} |-> tasks[t]]
    ELSE EmptyTasks

\* lines 223-232
CleanLoad(i) ==
    LET r == inv[i]
        state == load_state(file)
    IN /\ r.pc = "cl_load"
       /\ inv' = [inv EXCEPT ![i] =
                   IF ~Subscriptable(state) THEN Raise(r)
                   ELSE [r EXCEPT !.pc = "cl_save",
                                  !.count = Cardinality(DOMAIN state.tasks),
                                  !.state = [state EXCEPT
                                               !.tasks = retained(state.tasks, r.flag)]]]
       /\ UNCHANGED <<file, logs, procs, now, created, ops, io>>

\* line 234
CleanSave(i) ==
    LET r == inv[i]
    IN /\ r.pc = "cl_save"
       /\ file' = save_state(r.state)
       /\ inv' = [inv EXCEPT ![i].pc = "cl_unlink", ![i].wrote = TRUE]
       /\ UNCHANGED <<logs, procs, now, created, ops, io>>

\* (mutant) every log file found is unlinked.
kept_logs_none(files, tasks) == {}

\* lines 239-242: the log files that stay, those whose stem is a kept task id.
kept_logs(files, tasks) == {n \in files : n \in DOMAIN tasks}

\* lines 237-244
CleanUnlink(i) ==
    LET r == inv[i]
    IN /\ r.pc = "cl_unlink"
       /\ logs' = kept_logs(logs, r.state.tasks)
       /\ inv' = [inv EXCEPT ![i] =
                   Return(r, [NoRet EXCEPT !.kind = "count",
                                           !.n = r.count - Cardinality(DOMAIN r.state.tasks)])]
       /\ UNCHANGED <<file, procs, now, created, ops, io>>

\* -------------------------------------------------------------- list_tasks
\* list(state['tasks'].values()): a dict keeps insertion order, and every
\* inserted id is the largest so far, so the values come by ascending id.
RECURSIVE AscIds(_)
AscIds(S) ==
    IF S = {} THEN <<>>
    ELSE LET m == CHOOSE x \in S : \A y \in S : x <= y
         IN <<m>> \o AscIds(S \ {m})

values(tasks) == LET ids == AscIds(DOMAIN tasks)
                 IN [k \in 1..Len(ids) |-> tasks[ids[k]]]

IsRunning(t) == t.status = "running"

\* sorted(tasks, key=started_at, reverse=True) is stable: a task goes behind
\* every task that started no earlier and came before it.
InsertDesc(s, x) ==
    LET NotEarlier(t) == t.started_at >= x.started_at
        Earlier(t) == t.started_at < x.started_at
    IN SelectSeq(s, NotEarlier) \o <<x>> \o SelectSeq(s, Earlier)

RECURSIVE sorted_desc(_)
sorted_desc(s) ==
    IF s = <<>> THEN <<>>
    ELSE InsertDesc(sorted_desc(SubSeq(s, 1, Len(s) - 1)), s[Len(s)])

\* (mutant) the filter keeps the recent tasks only.
recent_only(tasks, show_all, at) ==
    LET cutoff == at - DaySeconds
        Shown(t) == t.started_at > cutoff
    IN IF show_all THEN tasks ELSE SelectSeq(tasks, Shown)

\* lines 209-216: the recent-or-running filter.
recent_or_running(tasks, show_all, at) ==
    LET cutoff == at - DaySeconds
        Shown(t) == t.status = "running" \/ t.started_at > cutoff
    IN IF show_all THEN tasks ELSE SelectSeq(tasks, Shown)

\* (mutant) no task is re-probed.
to_probe_none(tasks) == <<>>

\* lines 201-202: the tasks of the first snapshot the loop re-probes.
to_probe(tasks) == SelectSeq(tasks, IsRunning)

\* lines 197-198: the first load; the loop of lines 201-203 visits the tasks
\* this snapshot has as running.
ListLoad(i) ==
    LET r == inv[i]
        state == load_state(file)
        running == to_probe(values(state.tasks))
    IN /\ r.pc = "l_load"
       /\ inv' = [inv EXCEPT ![i] =
                   IF ~Subscriptable(state) THEN Raise(r)
                   ELSE [r EXCEPT !.pc = "l_loop", !.state = state,
                                  !.todo = [k \in 1..Len(running) |-> running[k].id]]]
       /\ UNCHANGED <<file, logs, procs, now, created, ops, io>>

\* lines 201-203: check_task(task['id']) for the next running task.
ListLoop(i) ==
    LET r == inv[i]
    IN /\ r.pc = "l_loop"
       /\ r.todo # <<>>
       /\ inv' = [inv EXCEPT ![i].pc = "c_load", ![i].arg = Head(r.todo),
                              ![i].todo = Tail(r.todo)]
       /\ UNCHANGED <<file, logs, procs, now, created, ops, io>>

\* lines 206-218: reload, filter, sort, return.
ListReload(i) ==
    LET r == inv[i]
        state == load_state(file)
    IN /\ r.pc = "l_loop"
       /\ r.todo = <<>>
       /\ inv' = [inv EXCEPT ![i] =
                   IF ~Subscriptable(state) THEN Raise(r)
                   ELSE [r EXCEPT !.pc = "done", !.state = FreshDoc, !.arg = 0,
                                  !.ret = [NoRet EXCEPT !.kind = "list",
                                             !.list = sorted_desc(recent_or_running(
                                                        values(state.tasks), r.flag, now))]]]
       /\ UNCHANGED <<file, logs, procs, now, created, ops, io>>

\* ------------------------------------------------------------ environment
\* A supervised process ends by itself.
LeaderExit(pid) ==
    /\ procs[pid].leader
    /\ procs' = [procs EXCEPT ![pid].leader = FALSE]
    /\ UNCHANGED <<file, logs, now, inv, created, ops, io>>

ChildExit(pid) ==
    /\ procs[pid].child
    /\ procs' = [procs EXCEPT ![pid].child = FALSE]
    /\ UNCHANGED <<file, logs, now, inv, created, ops, io>>

\* A day passes; an invocation takes a second or so, so it sees one date.
Tick ==
    /\ \A i \in Slots : ~Active(i)
    /\ now < MaxTicks * TickSeconds
    /\ now' = now + TickSeconds
    /\ UNCHANGED <<file, logs, procs, inv, created, ops, io>>

\* The kernel gives the pid of a launched process out again, to a process of
\* the same user or of another: the leader has ended and been reaped, and no
\* process is left in the group that has the pid as its id.
PidReuse(pid) ==
    /\ ~procs[pid].leader /\ ~procs[pid].child /\ procs[pid].foreign = "none"
    /\ \E owner \in {"own", "other"} : procs' = [procs EXCEPT ![pid].foreign = owner]
    /\ UNCHANGED <<file, logs, now, inv, created, ops, io>>

\* The process that got the pid ends.
ForeignExit(pid) ==
    /\ procs[pid].foreign # "none"
    /\ procs' = [procs EXCEPT ![pid].foreign = "none"]
    /\ UNCHANGED <<file, logs, now, inv, created, ops, io>>

\* run_task stops between two of its steps: Popen raises, or the invocation
\* is interrupted or killed.  Nothing of what it has done is undone.
RunStop(i) ==
    /\ inv[i].op = "run"
    /\ inv[i].pc \in {"r_open", "r_popen", "r_save"}
    /\ inv' = [inv EXCEPT ![i] = Raise(inv[i])]
    /\ UNCHANGED <<file, logs, procs, now, created, ops, io>>

\* Something outside the tool leaves the state file unparsable (a truncated
\* write) or parseable but no document ({}), while no invocation runs.
Damage ==
    /\ \A i \in Slots : ~Active(i)
    /\ file.kind = "json" /\ file.doc.shape = "doc"
    /\ \/ file' = [kind |-> "unparsable", doc |-> FreshDoc]
       \/ file' = [kind |-> "json", doc |-> MalformedDoc]
    /\ UNCHANGED <<logs, procs, now, inv, created, ops, io>>

\* ---------------------------------------------------------- specifications
Work(i) ==
    \/ RunLoad(i) \/ RunOpen(i) \/ RunPopen(i) \/ RunSave(i)
    \/ CheckLoad(i) \/ CheckProbe(i) \/ CheckReap(i)
    \/ KillLoad(i) \/ KillTerm(i) \/ KillProbe(i) \/ KillSave(i)
    \/ TailRead(i)
    \/ CleanLoad(i) \/ CleanSave(i) \/ CleanUnlink(i)
    \/ ListLoad(i) \/ ListLoop(i) \/ ListReload(i)

Environment ==
    \/ \E pid \in DOMAIN procs : LeaderExit(pid)
    \/ \E pid \in DOMAIN procs : ChildExit(pid)

\* Invocations that do not overlap, all within one day: one slot, one
\* invocation at a time, any number of them.
Next == Start(1) \/ Work(1) \/ Environment

Spec == Init /\ [][Next]_vars

\* The same, with a state file that may be damaged between invocations.
NextStore == Next \/ Damage

SpecStore == Init /\ [][NextStore]_vars

\* Invocations that do not overlap, MaxOps of them, over MaxTicks days.
NextClock == StartCounted(1) \/ Work(1) \/ Environment \/ Tick

SpecClock == Init /\ [][NextClock]_vars

\* Invocations that do not overlap, on a host that gives pids out again.
NextReuse ==
    \/ Next
    \/ \E pid \in DOMAIN procs : PidReuse(pid)
    \/ \E pid \in DOMAIN procs : ForeignExit(pid)

SpecReuse == Init /\ [][NextReuse]_vars

\* Invocations that do not overlap, any of which may stop inside run_task.
NextStop == Next \/ RunStop(1)

SpecStop == Init /\ [][NextStop]_vars

\* Invocations that overlap.  One task has been launched and is stored as
\* running; then every slot runs one invocation, and their steps interleave
\* in any order.
InitRace ==
    /\ file = StoreOfOne
    /\ logs = {1}
    /\ \E cmd \in Commands : procs = <<NewProc(cmd, 1)>>
    /\ now = 0
    /\ inv = [i \in Slots |-> IdleInv]
    /\ created = <<1>>
    /\ ops = 0
    /\ io = [text |-> <<>>, tail |-> DefaultTail]

StartRace(i) ==
    /\ inv[i].pc = "idle"
    /\ ops' = ops + 1
    /\ Begin(i)

NextRace ==
    \/ \E i \in Slots : StartRace(i) \/ Work(i)
    \/ Environment

SpecRace == InitRace /\ [][NextRace]_vars

\* get_task_output alone: one task has been launched, its log file (which
\* lives under /tmp and may have been removed there) holds any text, and
\* any --tail is given.
InitTail ==
    /\ file = StoreOfOne
    /\ logs \in {{}, {1}}
    /\ procs = <<NewProc("stubborn", 1)>>
    /\ now = 0
    /\ inv = [i \in Slots |-> IdleInv]
    /\ created = <<1>>
    /\ ops = 0
    /\ io \in [text : Texts, tail : Tails]

NextTail == TailStart(1) \/ TailRead(1)

SpecTail == InitTail /\ [][NextTail]_vars

\* ------------------------------------------------------------- properties
\* The task records a state file holds, as load_state reads them.
Stored(f) == load_state(f).tasks
StoredNextId(f) == load_state(f).next_id

Finished(i, op) == inv[i].op = op /\ inv[i].pc = "done"
Ended(i, op) == inv[i].op = op /\ inv[i].pc \in {"done", "crashed"}

\* C1: every id run_task returns is greater than all ids it returned before
\* (so no id is returned twice), whatever check, kill, list and clean calls
\* come between, and the next_id the state file holds never decreases.
C1_IdsStrictlyIncrease ==
    /\ [](\A a, b \in 1..Len(created) : a < b => created[a] < created[b])
    /\ [][StoredNextId(file') >= StoredNextId(file)]_vars

\* Two ids were returned; the first task has been cleaned away, and a
\* kill_task has run since the second was created.
C1_Witness ==
    /\ Len(created) = 2
    /\ DOMAIN Stored(file) = {created[2]}
    /\ Finished(1, "kill")

Terminal(t) == t.status \in {"completed", "killed"}

\* The record the invocation in slot i found under its task id when it began.
PreTask(i) == Stored(inv[i].pre.file)[inv[i].arg]
PreKnown(i) == inv[i].arg \in DOMAIN Stored(inv[i].pre.file)

\* C2: check_task and kill_task on a task that is stored as completed or
\* killed write nothing and leave the state file as it is (status,
\* completed_at, exit_code included) and send no signal; kill_task returns
\* False, check_task returns the stored record, and a check_task that follows
\* another check_task of that id returns what the first returned.
C2_TerminalIsFinal ==
    \A i \in Slots :
        (inv[i].op \in {"check", "kill"} /\ PreKnown(i) /\ Terminal(PreTask(i)))
        => /\ inv[i].pc # "crashed"
           /\ ~inv[i].wrote
           /\ file = inv[i].pre.file
           /\ inv[i].sent = <<>>
           /\ Finished(i, "kill") => inv[i].ret = RetBool(FALSE)
           /\ Finished(i, "check") =>
                 /\ inv[i].ret = RetTask(PreTask(i))
                 /\ inv[i].prev # NoRet => inv[i].ret = inv[i].prev

\* A second check_task in a row has returned a killed task.
C2_Witness ==
    /\ Finished(1, "check")
    /\ inv[1].prev # NoRet
    /\ inv[1].ret.task.status = "killed"

\* C3: after clean_tasks(keep_running=True) the state file holds exactly the
\* records that were stored as running, unchanged; the log file of every
\* removed id is gone and the log file of every kept id is there; the return
\* value is the number of records removed.
C3_CleanKeepsRunning ==
    \A i \in Slots :
        (Finished(i, "clean") /\ inv[i].flag)
        => LET before == Stored(inv[i].pre.file)
               after == Stored(file)
           IN /\ DOMAIN after = {t \in DOMAIN before : before[t].status = "running"}
              /\ \A t \in DOMAIN after : after[t] = before[t]
              /\ \A t \in DOMAIN before \ DOMAIN after : t \notin logs
              /\ \A t \in DOMAIN after : t \in logs
              /\ inv[i].ret.kind = "count"
              /\ inv[i].ret.n = Cardinality(DOMAIN before \ DOMAIN after)
              /\ StoredNextId(file) = StoredNextId(inv[i].pre.file)

\* A clean that removed one terminal task and kept one running task.
C3_Witness ==
    /\ Finished(1, "clean") /\ inv[1].flag
    /\ inv[1].ret.n = 1
    /\ Cardinality(DOMAIN Stored(file)) = 1
    /\ logs = DOMAIN Stored(file)

\* C4: kill_task on a running task whose process exists sends SIGTERM to the
\* group first and, after the wait, SIGKILL exactly when the process is still
\* there; then the record is stored as killed with completed_at set and True
\* is returned.  A process that ignores SIGTERM and is still there after the
\* wait has got SIGKILL before its record says killed.
C4_KillEscalates ==
    \A i \in Slots :
        (inv[i].op = "kill" /\ inv[i].found)
        => /\ inv[i].pc \in {"k_probe", "k_save", "done"}
           /\ inv[i].sent # <<>> /\ inv[i].sent[1] = "SIGTERM"
           /\ inv[i].pc = "k_probe" => inv[i].sent = <<"SIGTERM">> /\ ~inv[i].wrote
           /\ inv[i].pc \in {"k_save", "done"} =>
                 inv[i].sent = IF inv[i].seen THEN <<"SIGTERM", "SIGKILL">>
                               ELSE <<"SIGTERM">>
           /\ inv[i].pc = "k_save" => ~inv[i].wrote /\ file = inv[i].pre.file
           /\ inv[i].pc = "done" =>
                 /\ inv[i].ret = RetBool(TRUE)
                 /\ inv[i].wrote
                 /\ inv[i].arg \in DOMAIN Stored(file)
                 /\ Stored(file)[inv[i].arg].status = "killed"
                 /\ Stored(file)[inv[i].arg].completed_at # None
           /\ (/\ inv[i].arg \in DOMAIN Stored(file)
               /\ Stored(file)[inv[i].arg].status = "killed"
               /\ procs[PreTask(i).pid].cmd = "stubborn"
               /\ inv[i].seen)
              => inv[i].sent = <<"SIGTERM", "SIGKILL">>

\* A process that ignored SIGTERM was killed by SIGKILL and is stored as killed.
C4_Witness ==
    /\ Finished(1, "kill")
    /\ inv[1].ret = RetBool(TRUE)
    /\ inv[1].sent = <<"SIGTERM", "SIGKILL">>
    /\ procs[PreTask(1).pid].cmd = "stubborn"
    /\ Stored(file)[inv[1].arg].status = "killed"

\* C5 (as claimed): when kill_task has returned True, no process of the task's
\* group is left, neither the leader nor a child.
C5_GroupGoneAfterKill ==
    \A i \in Slots :
        (Finished(i, "kill") /\ inv[i].ret = RetBool(TRUE))
        => ~GroupAlive(PreTask(i).pid)

\* C6: check_task on a task stored as running returns the record as it is
\* and writes nothing when the probe finds the process; when the process is
\* gone the returned record is the stored one with status completed,
\* completed_at set and an integer exit_code (0 when waitpid raised
\* ChildProcessError), and the state file holds exactly that record.
C6_CheckReconciles ==
    \A i \in Slots :
        (Ended(i, "check") /\ PreKnown(i) /\ PreTask(i).status = "running")
        => /\ inv[i].pc = "done"
           /\ inv[i].ret.kind = "task"
           /\ IF inv[i].seen
              THEN /\ inv[i].ret.task = PreTask(i)
                   /\ ~inv[i].wrote
                   /\ file = inv[i].pre.file
              ELSE LET t == inv[i].ret.task
                   IN /\ t.status = "completed"
                      /\ t.completed_at # None /\ t.completed_at[1] \in t.started_at..now
                      /\ t.exit_code # None /\ t.exit_code[1] \in Int
                      /\ inv[i].wait = Some(-1) => t.exit_code = Some(0)
                      /\ t = [PreTask(i) EXCEPT !.status = "completed",
                                                !.completed_at = t.completed_at,
                                                !.exit_code = t.exit_code]
                      /\ inv[i].wrote
                      /\ Stored(file) = [Stored(inv[i].pre.file) EXCEPT ![inv[i].arg] = t]
                      /\ StoredNextId(file) = StoredNextId(inv[i].pre.file)

\* A check found the process gone and could not reap it.
C6_Witness ==
    /\ Finished(1, "check")
    /\ PreKnown(1) /\ PreTask(1).status = "running"
    /\ ~inv[1].seen
    /\ inv[1].wait = Some(-1)
    /\ Stored(file)[inv[1].arg].exit_code = Some(0)

\* C7 (as claimed): a state file that is absent, unparsable or not a document
\* loads as the fresh empty document, and no invocation ends with an error.
C7_LoadNeverFails ==
    /\ (file.kind # "json" \/ file.doc.shape # "doc") => load_state(file) = FreshDoc
    /\ \A i \in Slots : inv[i].pc # "crashed"

\* C8: for an id the state file does not hold, check_task returns None,
\* kill_task returns False and get_task_output returns its message; the state
\* file is not written, no signal is sent and the log files stay as they are.
C8_UnknownIdIsNoOp ==
    \A i \in Slots :
        (inv[i].op \in {"check", "kill", "tail"} /\ ~PreKnown(i))
        => /\ inv[i].pc # "crashed"
           /\ ~inv[i].wrote
           /\ file = inv[i].pre.file
           /\ logs = inv[i].pre.logs
           /\ inv[i].sent = <<>>
           /\ Finished(i, "check") => inv[i].ret = RetNotFound
           /\ Finished(i, "kill") => inv[i].ret = RetBool(FALSE)
           /\ Finished(i, "tail") => inv[i].ret.kind = "Task not found"

\* kill_task was given an id the state file, which holds a task, does not have.
C8_Witness ==
    /\ Finished(1, "kill")
    /\ ~PreKnown(1)
    /\ DOMAIN Stored(file) # {}
    /\ \E p \in DOMAIN procs : procs[p].leader

\* C9: kill_task on a task stored as running whose process is gone returns
\* False, raises nothing, sends no signal and leaves the state file as it
\* is: the record still says running.
C9_KillOfGoneProcess ==
    \A i \in Slots :
        (Ended(i, "kill") /\ PreKnown(i) /\ PreTask(i).status = "running" /\ ~inv[i].found)
        => /\ inv[i].pc = "done"
           /\ inv[i].ret = RetBool(FALSE)
           /\ ~inv[i].wrote
           /\ inv[i].sent = <<>>
           /\ file = inv[i].pre.file
           /\ Stored(file)[inv[i].arg].status = "running"

\* kill_task found the process of a running record gone.
C9_Witness ==
    /\ Finished(1, "kill")
    /\ PreKnown(1) /\ PreTask(1).status = "running"
    /\ ~inv[1].found
    /\ ~GroupAlive(PreTask(1).pid)

\* C10: list_tasks adds no record and removes none; a record it changes was
\* stored as running, its process is gone and it is now completed; every
\* task it returns as running was found alive by the probe of this call.
C10_ListKeepsRecords ==
    \A i \in Slots :
        inv[i].op = "list"
        => LET before == Stored(inv[i].pre.file)
               after == Stored(file)
           IN /\ inv[i].pc # "crashed"
              /\ DOMAIN after = DOMAIN before
              /\ \A t \in DOMAIN before :
                    \/ after[t] = before[t]
                    \/ /\ before[t].status = "running"
                       /\ ~(before[t].pid \in DOMAIN procs /\ procs[before[t].pid].leader)
                       /\ after[t] = [before[t] EXCEPT !.status = "completed",
                                         !.completed_at = after[t].completed_at,
                                         !.exit_code = after[t].exit_code]
              /\ inv[i].pc = "done" =>
                    /\ inv[i].ret.kind = "list"
                    /\ \A k \in 1..Len(inv[i].ret.list) :
                          /\ inv[i].ret.list[k] = after[inv[i].ret.list[k].id]
                          /\ inv[i].ret.list[k].status = "running"
                                => inv[i].ret.list[k].id \in inv[i].probed

\* list_tasks completed one task and returned another as running.
C10_Witness ==
    /\ Finished(1, "list")
    /\ file # inv[1].pre.file
    /\ \E k \in 1..Len(inv[1].ret.list) : inv[1].ret.list[k].status = "running"

\* C11: list_tasks(show_all=False) returns exactly the stored tasks that are
\* running after the re-probe or that started less than a day before the
\* call, list_tasks(show_all=True) returns every stored task, each once and as
\* stored, and the result goes from the latest started_at to the earliest.
C11_ListFilterAndOrder ==
    \A i \in Slots :
        Finished(i, "list")
        => LET stored == Stored(file)
               L == inv[i].ret.list
               at == inv[i].pre.now
               due == IF inv[i].flag THEN DOMAIN stored
                      ELSE {t \in DOMAIN stored :
                              \/ stored[t].status = "running"
                              \/ stored[t].started_at > at - DaySeconds}
           IN /\ {L[k].id : k \in 1..Len(L)} = due
              /\ Len(L) = Cardinality(due)
              /\ \A k \in 1..Len(L) : L[k] = stored[L[k].id]
              /\ \A a, b \in 1..Len(L) : a < b => L[a].started_at >= L[b].started_at

\* A list that left out a finished task of the day before and returned a
\* running task of the day before ahead of nothing newer.
C11_Witness ==
    /\ Finished(1, "list") /\ ~inv[1].flag
    /\ Cardinality(DOMAIN Stored(file)) = 2
    /\ Len(inv[1].ret.list) = 1
    /\ inv[1].ret.list[1].status = "running"
    /\ inv[1].ret.list[1].started_at <= inv[1].pre.now - DaySeconds

\* C12: get_task_output of a stored task whose log file holds L lines returns
\* the last min(n, L) lines, in their order, when n > 0 and the whole text
\* when n <= 0; for an id that is not stored and for a log file that is not
\* there it returns its message, and it raises nothing.
C12_TailReturnsLastLines ==
    \A i \in Slots :
        inv[i].op = "tail"
        => /\ inv[i].pc # "crashed"
           /\ (inv[i].pc = "done" /\ ~PreKnown(i)) => inv[i].ret.kind = "Task not found"
           /\ (inv[i].pc = "done" /\ PreKnown(i) /\ inv[i].arg \notin logs)
                 => inv[i].ret.kind = "No output file found"
           /\ (inv[i].pc = "done" /\ PreKnown(i) /\ inv[i].arg \in logs)
                 => LET lines == readlines(io.text)
                        L == Len(lines)
                        n == io.tail
                        m == IF n > L THEN L ELSE n
                    IN /\ inv[i].ret.kind = "output"
                       /\ n > 0 => inv[i].ret.text = join(SubSeq(lines, L - m + 1, L))
                       /\ n <= 0 => inv[i].ret.text = io.text

\* Three lines were asked of a log of two lines, the last one unfinished.
C12_Witness ==
    /\ Finished(1, "tail")
    /\ inv[1].ret.kind = "output"
    /\ io.tail = 3
    /\ Len(readlines(io.text)) = 2
    /\ io.text[Len(io.text)] = "x"
    /\ inv[1].ret.text = io.text

\* The steps at which an invocation saves the state file.
SavePcs == {"r_save", "c_reap", "k_save", "cl_save"}

\* C13: a save writes the saving invocation's own snapshot: apart from the
\* record the invocation is about, the file then holds the records and the
\* next_id that invocation loaded, whatever another invocation has saved in
\* between (the last writer wins).  The witness is the lost update: a
\* run_task and a kill_task both end normally and the record run_task
\* returned is not in the file.
C13_LastWriterWins ==
    [][\A i \in Slots :
          (inv[i].pc \in SavePcs /\ inv'[i] # inv[i])
          => LET snap == inv[i].state
                 own == inv[i].task.id
             IN /\ file'.kind = "json"
                /\ file'.doc.next_id = snap.next_id
                /\ DOMAIN file'.doc.tasks \ {own} = DOMAIN snap.tasks \ {own}
                /\ \A t \in DOMAIN snap.tasks \ {own} :
                      file'.doc.tasks[t] = snap.tasks[t]]_vars

\* run_task returned a record, kill_task returned True, and the file does not
\* hold the record run_task saved.
C13_Witness ==
    \E a, b \in Slots :
        /\ Finished(a, "run") /\ inv[a].wrote
        /\ Finished(b, "kill") /\ inv[b].ret = RetBool(TRUE)
        /\ inv[a].ret.task.id \notin DOMAIN Stored(file)
        /\ Stored(file)[inv[b].arg].status = "killed"

\* C14 (as claimed): whatever the interleaving, every record in the state
\* file has its log file on disk.
C14_RecordHasLog ==
    \A t \in DOMAIN Stored(file) : t \in logs

\* C15 (as claimed): every record stored as completed or killed has an
\* exit_code, and every record stored as running has none.
C15_ExitCodeOnTerminal ==
    \A t \in DOMAIN Stored(file) :
        LET task == Stored(file)[t]
        IN /\ Terminal(task) => task.exit_code # None
           /\ task.status = "running" => task.exit_code = None

\* C16 (as claimed): check_task of a record stored as running whose launched
\* process has ended returns it as completed, also when the pid names
\* another process by then.
C16_StaleRunningDetected ==
    \A i \in Slots :
        (Finished(i, "check") /\ PreKnown(i) /\ PreTask(i).status = "running"
            /\ ~inv[i].seen)
        => /\ inv[i].ret.task.status = "completed"
           /\ Stored(file)[inv[i].arg].status = "completed"

\* C17 (as claimed): whatever the interleaving, no two run_task calls return
\* the same id (and with it the same log file).
C17_IdsDistinctUnderRace ==
    \A a, b \in 1..Len(created) : a # b => created[a] # created[b]

\* C18 (as claimed): whatever the interleaving, a record stored as completed
\* or killed keeps its status, completed_at and exit_code for as long as the
\* id is stored.
C18_TerminalStaysUnderRace ==
    [][\A t \in DOMAIN Stored(file) \cap DOMAIN Stored(file') :
          Terminal(Stored(file)[t])
          => /\ Stored(file')[t].status = Stored(file)[t].status
             /\ Stored(file')[t].completed_at = Stored(file)[t].completed_at
             /\ Stored(file')[t].exit_code = Stored(file)[t].exit_code]_vars

\* C19: with invocations that do not overlap, every stored record is
\* running, completed or killed (never failed), and its completed_at is None
\* exactly when it is running.
C19_StatusAndCompletedAt ==
    \A t \in DOMAIN Stored(file) :
        LET task == Stored(file)[t]
        IN /\ task.status \in {"running", "completed", "killed"}
           /\ task.completed_at = None <=> task.status = "running"

\* One record of each status is stored.
C19_Witness ==
    /\ \A i \in Slots : ~Active(i)
    /\ {Stored(file)[t].status : t \in DOMAIN Stored(file)} = {"completed", "killed"}
    /\ Len(created) = 2

\* The launched process of a stored record is alive.
LaunchedAlive(task) == task.pid \in DOMAIN procs /\ procs[task.pid].leader

C21_CreateOrder ==
    /\ \A i \in Slots :
          inv[i].op = "run"
          => /\ inv[i].pc \in {"r_load", "r_open"}
                  => /\ Len(procs) = inv[i].pre.launched
                     /\ file = inv[i].pre.file
             /\ inv[i].pc = "r_popen"
                  => /\ inv[i].task.id \in logs
                     /\ Len(procs) = inv[i].pre.launched
                     /\ file = inv[i].pre.file
             /\ inv[i].pc = "r_save"
                  => /\ inv[i].task.id \in logs
                     /\ Len(procs) = inv[i].pre.launched + 1
                     /\ inv[i].task.pid \in DOMAIN procs
                     /\ procs[inv[i].task.pid].task = inv[i].task.id
                     /\ file = inv[i].pre.file
             /\ inv[i].pc = "done"
                  => /\ inv[i].ret.task.id \in logs
                     /\ Len(procs) = inv[i].pre.launched + 1
                     /\ Stored(file)[inv[i].ret.task.id] = inv[i].ret.task
             /\ inv[i].pc = "crashed"
                  => /\ file = inv[i].pre.file
                     /\ ~inv[i].wrote
    /\ \A t \in DOMAIN Stored(file) :
          LET task == Stored(file)[t]
          IN /\ task.pid \in DOMAIN procs
             /\ procs[task.pid].task = task.id

\* A run_task stopped after it had launched its process; the next one got
\* the same id and stored it with the pid of its own process.
C21_Witness ==
    /\ Finished(1, "run")
    /\ Len(procs) = 2
    /\ procs[1].task = 1 /\ procs[2].task = 1
    /\ DOMAIN Stored(file) = {1}
    /\ Stored(file)[1].pid = 2

\* C22 (as claimed): kill_task sends SIGTERM only while the process the task
\* launched has the pid, and SIGKILL only while it still has it: no signal
\* goes to the group of a process that got the pid later.
C22_KillSignalsOwnGroupOnly ==
    \A i \in Slots :
        inv[i].op = "kill"
        => /\ inv[i].sent # <<>> => inv[i].found
           /\ Len(inv[i].sent) = 2 => inv[i].seen

====
